---- MODULE Spec2Model ----
\* Model of pages/01_chatgpt주가.py: a Streamlit page that lets the user pick
\* companies from a fixed catalog, downloads three years of prices for each
\* picked company and overlays the closing prices in one Plotly figure.
\* One run of the script (a "render pass") is modelled statement by statement;
\* the user, the clock and the market-data provider are the environment.
EXTENDS Integers, Sequences, FiniteSets, TLC

\* ---------------------------------------------------------------- bounds
\* Longest selection the modelled user makes.
MaxSel == 2
\* Largest number of rows a download returns.
MaxPoints == 2
\* Number of days the clock may advance during the session.
MaxDay == 1

\* ------------------------------------------------------------- constants
\* The dict literal with a misspelt first key.
top10_misspelt ==
    << <<"Apple (APPL)", "AAPL">>,
       <<"Microsoft (MSFT)", "MSFT">>,
       <<"Alphabet (GOOGL)", "GOOGL">>,
       <<"Amazon (AMZN)", "AMZN">>,
       <<"NVIDIA (NVDA)", "NVDA">>,
       <<"Meta (META)", "META">>,
       <<"Berkshire Hathaway (BRK-B)", "BRK-B">>,
       <<"Eli Lilly (LLY)", "LLY">>,
       <<"Visa (V)", "V">>,
       <<"TSMC (TSM)", "TSM">> >>

\* Lines 8-19: the dict literal, as the sequence of its items in insertion order.
top10_companies ==
    << <<"Apple (AAPL)", "AAPL">>,
       <<"Microsoft (MSFT)", "MSFT">>,
       <<"Alphabet (GOOGL)", "GOOGL">>,
       <<"Amazon (AMZN)", "AMZN">>,
       <<"NVIDIA (NVDA)", "NVDA">>,
       <<"Meta (META)", "META">>,
       <<"Berkshire Hathaway (BRK-B)", "BRK-B">>,
       <<"Eli Lilly (LLY)", "LLY">>,
       <<"Visa (V)", "V">>,
       <<"TSMC (TSM)", "TSM">> >>

\* Line 24: default=[...] of st.multiselect.
default == <<"Apple (AAPL)", "Microsoft (MSFT)">>

\* Line 29: timedelta(days=3*365).
LookbackDays == 3 * 365

\* Days are proleptic ordinals (date.toordinal() >= 1); 0 stands for a name
\* that is not bound yet in the running script.
NoDate == 0

\* The first day of the session: the earliest ordinal whose lookback start is
\* itself a valid date.
FirstDay == LookbackDays + 1

\* A figure name that is not bound yet.
NoFig == [data |-> <<>>, layout |-> "unbound"]

\* Line 32: go.Figure(), no traces and the default layout.
Figure == [data |-> <<>>, layout |-> "default"]

\* ------------------------------------------------------------- helpers
Range(s) == {s[k] : k \in DOMAIN s}

\* list(top10_companies.keys())
Keys(cat) == [k \in DOMAIN cat |-> cat[k][1]]

HasKey(cat, name) == \E k \in DOMAIN cat : cat[k][1] = name

\* top10_companies[name]: the value of the last item with that key.
Lookup(cat, name) ==
    LET ks == {k \in DOMAIN cat : cat[k][1] = name}
        last == CHOOSE k \in ks : \A j \in ks : j <= k
    IN  cat[last][2]

\* s without its k-th item.
Remove(s, k) == SubSeq(s, 1, k - 1) \o SubSeq(s, k + 1, Len(s))

\* What one interaction with the widget makes of its value `s`: the user picks
\* one more option (appended), removes one picked option, clears the widget,
\* or reruns the page as it is.
Picks(s, opts, n) ==
    {s, <<>>}
    \cup {Append(s, l) : l \in {o \in opts : Len(s) < n /\ o \notin Range(s)}}
    \cup {Remove(s, k) : k \in DOMAIN s}

\* What one yf.download call can do: raise, or return a table of 0..MaxPoints rows.
Outcomes ==
    {[raised |-> TRUE, rows |-> 0]} \cup
    {[raised |-> FALSE, rows |-> n] : n \in 0..MaxPoints}

\* df.empty taken for "fewer than two rows".
EmptyBelowTwo(rows) == rows <= 1

\* df.empty
Empty(rows) == rows = 0

\* go.Scatter(x=df.index, y=df['Close'], mode='lines', name=name)
Scatter(name, rows) == [name |-> name, points |-> rows, mode |-> "lines"]

\* fig.add_trace(trace)
add_trace(f, trace) == [f EXCEPT !.data = Append(@, trace)]

\* fig.update_layout(..., template="plotly_white")
update_layout(f) == [f EXCEPT !.layout = "plotly_white"]

\* ---------------------------------------------------------------- state
VARIABLES
    catalog,     \* the module-level dict top10_companies
    selected,    \* the list st.multiselect returned to this run
    clock,       \* the current day (what datetime.today() would return)
    pc,          \* where the running script is
    end_date,    \* line 28
    start_date,  \* line 29
    fig,         \* line 32
    i,           \* how many items of `selected` the for loop has taken
    name,        \* the loop variable
    df,          \* rows of the table the last download returned
    warnings,    \* st.warning elements on the page, as the labels they name
    info,        \* number of st.info elements on the page
    charts,      \* figures st.plotly_chart put on the page
    calls,       \* requests sent to the provider in this run
    results,     \* what the provider did with each of them
    memo         \* an earlier finished run, as an observer of the page recorded
                 \* it; memo.later says that the script has been rerun since

vars == <<catalog, selected, clock, pc, end_date, start_date, fig, i, name, df,
          warnings, info, charts, calls, results, memo>>

NoMemo == [later |-> FALSE, pc |-> "none", selected |-> <<>>, end_date |-> NoDate, results |-> <<>>,
           fig |-> NoFig, warnings |-> <<>>, info |-> 0, charts |-> <<>>]

ThisRun == [later |-> FALSE, pc |-> pc, selected |-> selected, end_date |-> end_date,
            results |-> results, fig |-> fig, warnings |-> warnings,
            info |-> info, charts |-> charts]

Init ==
    /\ catalog = top10_companies
    /\ selected = default
    /\ clock = FirstDay
    /\ pc = "start"
    /\ end_date = NoDate
    /\ start_date = NoDate
    /\ fig = NoFig
    /\ i = 0
    /\ name = ""
    /\ df = 0
    /\ warnings = <<>>
    /\ info = 0
    /\ charts = <<>>
    /\ calls = <<>>
    /\ results = <<>>
    /\ memo = NoMemo

\* -------------------------------------------------------------- actions
\* Line 26 written as "if len(selected) > 1".
BranchMoreThanOne ==
    /\ pc = "start"
    /\ pc' = IF Len(selected) > 1 THEN "range" ELSE "else"
    /\ UNCHANGED <<catalog, selected, clock, end_date, start_date, fig, i, name,
                   df, warnings, info, charts, calls, results, memo>>

\* Line 26: if selected.
Branch ==
    /\ pc = "start"
    /\ pc' = IF Len(selected) > 0 THEN "range" ELSE "else"
    /\ UNCHANGED <<catalog, selected, clock, end_date, start_date, fig, i, name,
                   df, warnings, info, charts, calls, results, memo>>

\* Lines 28-29.
DateRange ==
    /\ pc = "range"
    /\ end_date' = clock
    /\ start_date' = end_date' - LookbackDays
    /\ pc' = "figure"
    /\ UNCHANGED <<catalog, selected, clock, fig, i, name, df, warnings, info,
                   charts, calls, results, memo>>

\* Line 32.
NewFigure ==
    /\ pc = "figure"
    /\ fig' = Figure
    /\ pc' = "loop"
    /\ UNCHANGED <<catalog, selected, clock, end_date, start_date, i, name, df,
                   warnings, info, charts, calls, results, memo>>

\* Lines 34-36 inside try/except, a raising download taken for an empty table.
DownloadSwallows ==
    /\ pc = "loop"
    /\ i < Len(selected)
    /\ i' = i + 1
    /\ name' = selected[i + 1]
    /\ IF HasKey(catalog, name')
       THEN \E r \in Outcomes :
               /\ calls' = Append(calls, [ticker |-> Lookup(catalog, name'),
                                          start |-> start_date, end |-> end_date])
               /\ results' = Append(results, r)
               /\ df' = r.rows
               /\ pc' = "check"
       ELSE /\ pc' = "failed"
            /\ UNCHANGED <<calls, results, df>>
    /\ UNCHANGED <<catalog, selected, clock, end_date, start_date, fig, warnings,
                   info, charts, memo>>

\* Lines 34-36 with the range taken anew from datetime.today() at every call.
DownloadToday ==
    /\ pc = "loop"
    /\ i < Len(selected)
    /\ i' = i + 1
    /\ name' = selected[i + 1]
    /\ IF HasKey(catalog, name')
       THEN \E r \in Outcomes :
               /\ calls' = Append(calls, [ticker |-> Lookup(catalog, name'),
                                          start |-> clock - LookbackDays, end |-> clock])
               /\ results' = Append(results, r)
               /\ df' = r.rows
               /\ pc' = IF r.raised THEN "failed" ELSE "check"
       ELSE /\ pc' = "failed"
            /\ UNCHANGED <<calls, results, df>>
    /\ UNCHANGED <<catalog, selected, clock, end_date, start_date, fig, warnings,
                   info, charts, memo>>

\* Lines 34-36: take the next label, look its ticker up, download.
Download ==
    /\ pc = "loop"
    /\ i < Len(selected)
    /\ i' = i + 1
    /\ name' = selected[i + 1]
    /\ IF HasKey(catalog, name')
       THEN \E r \in Outcomes :
               /\ calls' = Append(calls, [ticker |-> Lookup(catalog, name'),
                                          start |-> start_date, end |-> end_date])
               /\ results' = Append(results, r)
               /\ df' = r.rows
               /\ pc' = IF r.raised THEN "failed" ELSE "check"
       ELSE /\ pc' = "failed"
            /\ UNCHANGED <<calls, results, df>>
    /\ UNCHANGED <<catalog, selected, clock, end_date, start_date, fig, warnings,
                   info, charts, memo>>

\* Lines 37-43 with the label dropped from the selection once it is plotted.
AddTraceConsumes ==
    /\ pc = "check"
    /\ ~Empty(df)
    /\ fig' = add_trace(fig, Scatter(name, df))
    /\ selected' = Remove(selected, i)
    /\ i' = i - 1
    /\ pc' = "loop"
    /\ UNCHANGED <<catalog, clock, end_date, start_date, name, df,
                   warnings, info, charts, calls, results, memo>>

\* Lines 37-43.
AddTrace ==
    /\ pc = "check"
    /\ ~Empty(df)
    /\ fig' = add_trace(fig, Scatter(name, df))
    /\ pc' = "loop"
    /\ UNCHANGED <<catalog, selected, clock, end_date, start_date, i, name, df,
                   warnings, info, charts, calls, results, memo>>

\* Lines 44-45 followed by another attempt at the same label.
WarningRetry ==
    /\ pc = "check"
    /\ Empty(df)
    /\ warnings' = Append(warnings, name)
    /\ i' = i - 1
    /\ pc' = "loop"
    /\ UNCHANGED <<catalog, selected, clock, end_date, start_date, fig, name,
                   df, info, charts, calls, results, memo>>

\* Lines 44-45 followed by a break.
WarningBreak ==
    /\ pc = "check"
    /\ Empty(df)
    /\ warnings' = Append(warnings, name)
    /\ i' = Len(selected)
    /\ pc' = "loop"
    /\ UNCHANGED <<catalog, selected, clock, end_date, start_date, fig, name,
                   df, info, charts, calls, results, memo>>

\* Lines 44-45.
Warning ==
    /\ pc = "check"
    /\ Empty(df)
    /\ warnings' = Append(warnings, name)
    /\ pc' = "loop"
    /\ UNCHANGED <<catalog, selected, clock, end_date, start_date, fig, i, name,
                   df, info, charts, calls, results, memo>>

\* Lines 48-56 guarded by "if fig.data".
PlotlyChartIfData ==
    /\ pc = "loop"
    /\ i >= Len(selected)
    /\ fig' = update_layout(fig)
    /\ charts' = IF fig.data # <<>> THEN Append(charts, fig') ELSE charts
    /\ pc' = "done"
    /\ UNCHANGED <<catalog, selected, clock, end_date, start_date, i, name, df,
                   warnings, info, calls, results, memo>>

\* Lines 48-56: the loop is exhausted; lay the figure out and put it on the page.
PlotlyChart ==
    /\ pc = "loop"
    /\ i >= Len(selected)
    /\ fig' = update_layout(fig)
    /\ charts' = Append(charts, fig')
    /\ pc' = "done"
    /\ UNCHANGED <<catalog, selected, clock, end_date, start_date, i, name, df,
                   warnings, info, calls, results, memo>>

\* Line 58.
Info ==
    /\ pc = "else"
    /\ info' = info + 1
    /\ pc' = "done"
    /\ UNCHANGED <<catalog, selected, clock, end_date, start_date, fig, i, name,
                   df, warnings, charts, calls, results, memo>>

\* A rerun that leaves the warnings of the previous run on the page.
RerunKeepsWarnings(opts) ==
    /\ pc \in {"done", "failed"}
    /\ catalog' = top10_companies
    /\ \E s \in Picks(selected, opts, MaxSel) : selected' = s
    /\ pc' = "start"
    /\ end_date' = NoDate
    /\ start_date' = NoDate
    /\ fig' = NoFig
    /\ i' = 0
    /\ name' = ""
    /\ df' = 0
    /\ info' = 0
    /\ charts' = <<>>
    /\ calls' = <<>>
    /\ results' = <<>>
    /\ memo' = IF memo = NoMemo THEN memo ELSE [memo EXCEPT !.later = TRUE]
    /\ UNCHANGED <<clock, warnings>>

\* A user interaction after a run has ended: the script is executed again from
\* its first line in a fresh namespace and on a cleared page (lines 8-19 rebuild
\* the dict, line 24 returns the widget's value after the interaction; the user picks
\* among `opts`).
Rerun(opts) ==
    /\ pc \in {"done", "failed"}
    /\ catalog' = top10_companies
    /\ \E s \in Picks(selected, opts, MaxSel) : selected' = s
    /\ pc' = "start"
    /\ end_date' = NoDate
    /\ start_date' = NoDate
    /\ fig' = NoFig
    /\ i' = 0
    /\ name' = ""
    /\ df' = 0
    /\ warnings' = <<>>
    /\ info' = 0
    /\ charts' = <<>>
    /\ calls' = <<>>
    /\ results' = <<>>
    /\ memo' = IF memo = NoMemo THEN memo ELSE [memo EXCEPT !.later = TRUE]
    /\ UNCHANGED clock

\* Midnight passes.
Tick ==
    /\ clock < FirstDay + MaxDay
    /\ clock' = clock + 1
    /\ UNCHANGED <<catalog, selected, pc, end_date, start_date, fig, i, name, df,
                   warnings, info, charts, calls, results, memo>>

\* An observer records the page and the inputs of the run that just ended.
Snapshot ==
    /\ pc \in {"done", "failed"}
    /\ memo = NoMemo
    /\ memo' = ThisRun
    /\ UNCHANGED <<catalog, selected, clock, pc, end_date, start_date, fig, i,
                   name, df, warnings, info, charts, calls, results>>

AnyLabel == Range(Keys(catalog))

DefaultLabels == Range(default) \cap AnyLabel

Next ==
    \/ Branch
    \/ DateRange
    \/ NewFigure
    \/ Download
    \/ AddTrace
    \/ Warning
    \/ PlotlyChart
    \/ Info
    \/ Rerun(AnyLabel)
    \/ Tick

Spec == Init /\ [][Next]_vars

\* The same program with an observer, the user picking among the default labels only.
NextIdem ==
    \/ Branch
    \/ DateRange
    \/ NewFigure
    \/ Download
    \/ AddTrace
    \/ Warning
    \/ PlotlyChart
    \/ Info
    \/ Rerun(DefaultLabels)
    \/ Tick
    \/ Snapshot

SpecIdem == Init /\ [][NextIdem]_vars

\* ------------------------------------------------------------ properties
Ended == pc \in {"done", "failed"}

\* How many labels of `selected` have been through the whole loop body.
Processed == IF pc \in {"check", "failed"} THEN i - 1 ELSE i

\* The first n labels of `selected` whose download returned a table that
\* satisfies keep, in selection order.
LabelsWhere(n, keep(_)) ==
    LET idx == SelectSeq([k \in 1..n |-> k], LAMBDA k : keep(results[k].rows))
    IN  [j \in DOMAIN idx |-> selected[idx[j]]]

HasRows(rows) == rows > 0

NoRows(rows) == rows = 0

TraceNames(f) == [j \in DOMAIN f.data |-> f.data[j].name]

\* How many requests of this run asked for ticker t.
Requests(t) == Cardinality({k \in DOMAIN calls : calls[k].ticker = t})

\* C1: a finished pass over a non-empty selection has rendered exactly one
\* figure; it has one trace per selected label whose download returned rows,
\* named by that label, in selection order - a figure without traces when
\* every download came back empty.
C1_OneFigureOneTracePerSeries ==
    (pc = "done" /\ selected # <<>>) =>
        /\ Len(results) = Len(selected)
        /\ Len(charts) = 1
        /\ Len(charts[1].data) =
               Cardinality({k \in DOMAIN selected : results[k].rows > 0})
        /\ TraceNames(charts[1]) = LabelsWhere(Len(selected), HasRows)

C1_Witness ==
    /\ pc = "done"
    /\ Len(selected) = 2
    /\ results[1].rows = 0
    /\ results[2].rows > 0
    /\ Len(charts) = 1
    /\ TraceNames(charts[1]) = <<selected[2]>>

\* C2: while the selection is empty no figure exists, nothing is rendered,
\* fetched or warned about, and the finished pass shows exactly one prompt;
\* while the selection is non-empty the prompt is never on the page.
C2_EmptySelectionPromptOnly ==
    /\ selected = <<>> =>
          /\ fig = NoFig
          /\ charts = <<>>
          /\ calls = <<>>
          /\ warnings = <<>>
          /\ info = (IF pc = "done" THEN 1 ELSE 0)
          /\ pc # "failed"
    /\ selected # <<>> => info = 0

C2_Witness ==
    /\ selected = <<>>
    /\ pc = "done"
    /\ info = 1
    /\ charts = <<>>

\* C3: the warnings on the page name exactly the processed labels whose
\* download was empty, once each, and the traces exactly the processed labels
\* whose download had rows, once each; when the pass is done the two add up to
\* the number of selected labels.
C3_WarningXorTrace ==
    /\ warnings = LabelsWhere(Processed, NoRows)
    /\ TraceNames(fig) = LabelsWhere(Processed, HasRows)
    /\ \A j \in DOMAIN fig.data :
          /\ fig.data[j].points > 0
          /\ \E k \in DOMAIN results :
                selected[k] = fig.data[j].name /\ results[k].rows = fig.data[j].points
    /\ (pc = "done" /\ selected # <<>>) =>
          Len(warnings) + Len(fig.data) = Len(selected)

C3_Witness ==
    /\ pc = "done"
    /\ Len(selected) = 2
    /\ warnings = <<selected[1]>>
    /\ TraceNames(fig) = <<selected[2]>>

\* C4: labels are taken one at a time in selection order - the k-th request
\* is for the k-th label, and when it is sent every earlier label has its
\* trace or its warning; an empty table does not stop the loop, and the chart
\* is rendered only when every selected label has been processed.
C4_SequentialNoAbortOnEmpty ==
    /\ Len(calls) = Len(results)
    /\ Len(calls) = i
    /\ \A k \in DOMAIN calls : calls[k].ticker = Lookup(catalog, selected[k])
    /\ pc \in {"loop", "check", "done", "failed"} /\ selected # <<>> =>
          Len(fig.data) + Len(warnings) = Processed
    /\ (pc = "done" /\ selected # <<>>) => Len(calls) = Len(selected)
    /\ charts # <<>> => (pc = "done" /\ Processed = Len(selected))

C4_Witness ==
    /\ pc = "done"
    /\ Len(selected) = 2
    /\ results[1].rows = 0
    /\ Len(calls) = 2
    /\ calls[2].ticker = Lookup(catalog, selected[2])
    /\ Len(charts) = 1

\* C5: once the range is computed, end - start is 1095 days, whatever the day,
\* and every request of the pass carries that same (start, end) pair.
C5_RangeIs1095DaysAndShared ==
    /\ pc \in {"figure", "loop", "check"} \/ (Ended /\ selected # <<>>) =>
          /\ end_date # NoDate
          /\ end_date - start_date = 1095
    /\ \A k \in DOMAIN calls :
          /\ calls[k].end = end_date
          /\ calls[k].start = start_date
          /\ calls[k].end - calls[k].start = 1095

C5_Witness ==
    /\ Len(calls) = 2
    /\ clock > end_date
    /\ calls[1].end = calls[2].end

\* C6: a finished pass with the selection, the day and the download results
\* of a pass recorded earlier has the outputs of that pass: the same figure
\* (traces, names, point counts), the same warnings, prompt and rendered
\* charts, and it ended the same way.
C6_SameInputsSameOutputs ==
    (/\ Ended
     /\ memo # NoMemo
     /\ memo.selected = selected
     /\ memo.end_date = end_date
     /\ memo.results = results)
        => [memo EXCEPT !.later = FALSE] = ThisRun

C6_Witness ==
    /\ memo.later
    /\ pc = "done"
    /\ memo.selected = selected
    /\ memo.end_date = end_date
    /\ memo.results = results
    /\ Len(selected) = 2
    /\ Len(warnings) = 1
    /\ Len(fig.data) = 1
    /\ memo.charts = charts

\* C7: in a pass, each label the loop has taken has been requested exactly
\* once and no other ticker has been requested; a finished pass has requested
\* every selected label once, also those a recorded earlier pass had requested.
C7_OneRequestPerSelectedLabel ==
    /\ \A k \in DOMAIN catalog :
          Requests(catalog[k][2]) =
              (IF \E j \in 1..i : selected[j] = catalog[k][1] THEN 1 ELSE 0)
    /\ \A k \in DOMAIN calls : \E j \in DOMAIN catalog : calls[k].ticker = catalog[j][2]
    /\ (pc = "done" /\ selected # <<>>) => Len(calls) = Len(selected)
    /\ (pc = "done" /\ memo.later) =>
          \A l \in Range(memo.selected) \cap Range(selected) :
              Requests(Lookup(catalog, l)) = 1

C7_Witness ==
    /\ pc = "done"
    /\ memo.later
    /\ memo.pc = "done"
    /\ Len(memo.selected) = 2
    /\ Len(memo.results) = 2
    /\ memo.selected = selected
    /\ results[1].rows = 0
    /\ Len(calls) = 2

C8_Inv ==
    /\ Len(catalog) = 10
    /\ Cardinality(Range(Keys(catalog))) = 10
    /\ Cardinality({catalog[k][2] : k \in DOMAIN catalog}) = 10
    /\ default = SubSeq(Keys(catalog), 1, 2)
    /\ Range(selected) \subseteq Range(Keys(catalog))
    /\ \A k \in DOMAIN selected : HasKey(catalog, selected[k])
    /\ Len(calls) = i
    /\ \A a, b \in DOMAIN calls :
          selected[a] # selected[b] => calls[a].ticker # calls[b].ticker

\* C8: the session starts with the default selection, the first two of the
\* catalog's 10 labels, and the selection always stays within the catalog's
\* labels; so every label the loop takes has a ticker, and two different
\* selected labels are requested under different tickers.
C8_SelectionWithinCatalog == (selected = default) /\ []C8_Inv

C8_Witness ==
    /\ pc = "done"
    /\ Len(selected) = 2
    /\ "TSMC (TSM)" \in Range(selected)
    /\ Len(calls) = 2
    /\ calls[1].ticker # calls[2].ticker

\* C9: no step of a running pass changes the catalog or the selection; the
\* selection changes only in the step that starts the next run after a user
\* interaction.
C9_PassLeavesSelectionAlone ==
    [][/\ ~Ended => (selected' = selected /\ catalog' = catalog)
       /\ selected' # selected => (Ended /\ pc' = "start")
       /\ catalog' = catalog]_vars

C9_Witness ==
    /\ pc = "done"
    /\ selected # default
    /\ Len(selected) = 2
    /\ Len(warnings) = 1
    /\ Len(charts) = 1

\* C10: a download that raises ends the pass there: it is the last request
\* of the pass, nothing is rendered, the raising label has no warning, and
\* the traces collected so far stay off the page.
C10_RaiseFailsWholePass ==
    \A k \in DOMAIN results :
        results[k].raised =>
            /\ pc = "failed"
            /\ k = Len(results)
            /\ Len(calls) = k
            /\ i = k
            /\ charts = <<>>
            /\ info = 0
            /\ selected[k] \notin Range(warnings)
            /\ Len(fig.data) + Len(warnings) = k - 1

C10_Witness ==
    /\ pc = "failed"
    /\ Len(selected) = 2
    /\ Len(results) = 1
    /\ results[1].raised
    /\ charts = <<>>
    /\ warnings = <<>>
====
